---- MODULE Spec2Model ----
(***************************************************************************)
(* Model of the recipe API: the Recipe / Tag / Ingredient store, and the   *)
(* request handlers of recipe/views.py and recipe/serializers.py acting on *)
(* it.  No handler opens a transaction: every store statement commits on   *)
(* its own, and the statements of the requests in flight interleave.  A    *)
(* save() is an UPDATE and, when no row matched, an INSERT; a delete() is  *)
(* one transaction of two statements, the DELETE of the through rows and   *)
(* the DELETE of the row, whose foreign key check sees what the other      *)
(* requests have committed in between (READ COMMITTED).                    *)
(*   Spec      one action is one store statement of a request; the first   *)
(*             statement runs as the request arrives, and a request that   *)
(*             has more of them stays in `procs` until its last.  `last`   *)
(*             records the response, and of the request what the response  *)
(*             is read against: the operation, the body, the query         *)
(*             parameter.                                                  *)
(*   RaceSpec  two recipe creates that arrive together, with the same      *)
(*             statements, and no other request.                           *)
(*   WaitSpec  the wait_for_db management command, one statement of        *)
(*             Command.handle at a time.                                   *)
(*   SerialSpec the statements of Spec with one request handled at a time: *)
(*             a request arrives when none is in flight.                   *)
(* The routes are those of RecipeViewSet, TagViewSet and IngredientViewSet *)
(* (views.py 16-62).  IngredientViewSet names serializers.                 *)
(* IngredientSerializer, which is not in serializers.py as it is here; it  *)
(* is taken as the tests use it, the TagSerializer of the Ingredient       *)
(* model.  core/models.py is not here either: its rows are those the       *)
(* serializers and the tests name, and the (user, name) pair of a Tag or   *)
(* an Ingredient row is unique in the store.                               *)
(***************************************************************************)
EXTENDS Integers, Sequences, FiniteSets, TLC

VARIABLES
    recipes,            \* Recipe table: id -> [user, title, link]
    recipe_id_seq,      \* last id issued for a Recipe row
    tags,               \* Tag table: id -> [user, name]
    tag_id_seq,         \* last id issued for a Tag row
    ingredients,        \* Ingredient table: id -> [user, name]
    recipe_tags,        \* through table of Recipe.tags: set of <<recipe id, tag id>>
    recipe_ingredients, \* through table of Recipe.ingredients
    last,               \* the last response, with the request's operation and body
    pc,                 \* wait_for_db: the statement of handle() that runs next
    db_up,              \* wait_for_db: the local db_up of handle()
    stdout,             \* wait_for_db: the messages written to self.stdout
    checks,             \* wait_for_db: what the coming calls of self.check() raise
    clock,              \* wait_for_db: the seconds spent in time.sleep
    procs,              \* requests in flight, in the order they arrived
    served              \* requests that have arrived

vars == <<recipes, recipe_id_seq, tags, tag_id_seq, ingredients,
          recipe_tags, recipe_ingredients, last,
          pc, db_up, stdout, checks, clock, procs, served>>

store == <<recipes, recipe_id_seq, tags, tag_id_seq, ingredients,
           recipe_tags, recipe_ingredients>>

\* The state of the wait_for_db command, and of the requests in flight.
command == <<pc, db_up, stdout, checks, clock>>
requests == <<procs, served>>

----------------------------------------------------------------------------
(* Bounds of the model *)

MaxRecipes == 2     \* Recipe ids issued in a run
MaxTags == 2        \* Tag ids issued in a run
MaxTagList == 2     \* length of the "tags" list of a payload
MaxFailures == 3    \* calls of self.check() that raise before one returns
MaxRequests == 3    \* requests that arrive in a run

(* HTTP status codes of the responses *)
HTTP_200_OK == 200
HTTP_201_CREATED == 201
HTTP_204_NO_CONTENT == 204
HTTP_400_BAD_REQUEST == 400
HTTP_401_UNAUTHORIZED == 401
HTTP_404_NOT_FOUND == 404
HTTP_405_METHOD_NOT_ALLOWED == 405
HTTP_500_SERVER_ERROR == 500

----------------------------------------------------------------------------
(* Values *)

Users == {"u1", "u2"}

\* request.user of a request that carries no valid token.
AnonymousUser == "AnonymousUser"

\* Who a request can come from.
Principals == Users \cup {AnonymousUser}
Names == {"Dinner", "Thai"}
IngredientNames == {"Apples", "Turkey"}
Titles == {"Pongal", "Curry"}
Links == {"", "pdf"}
Absent == "<absent>"

\* Binary string order of the names, as the store's ORDER BY compares them.
NameRank == ("Apples" :> 1) @@ ("Dinner" :> 2) @@ ("Thai" :> 3) @@ ("Turkey" :> 4)

EmptyTable == [i \in {} |-> 0]

Insert(table, id, row) == (id :> row) @@ table

Delete(table, id) == [i \in DOMAIN table \ {id} |-> table[i]]

Range(s) == {s[i] : i \in DOMAIN s}

----------------------------------------------------------------------------
(* Payloads and requests *)

\* The keys of a request body the handlers can see.  A key the body does not
\* carry is Absent (has_tags = FALSE for the list-valued "tags").
Payload(title, link, has_tags, tag_names, user, has_ingredients) ==
    [title |-> title, link |-> link, has_tags |-> has_tags, tags |-> tag_names,
     user |-> user, has_ingredients |-> has_ingredients]

NoPayload == Payload(Absent, Absent, FALSE, <<>>, Absent, FALSE)

TagLists == UNION {[1..n -> Names] : n \in 0..MaxTagList}

\* What `last` keeps of a request and its response.  `data` is the list of
\* ids of the rows the response body carries.
Response(op, partial, payload, assigned_only, status, data) ==
    [op |-> op, partial |-> partial, payload |-> payload,
     assigned_only |-> assigned_only, status |-> status, data |-> data]

----------------------------------------------------------------------------
(* Querysets *)

\* order_by("key"): the ids by ascending rank.
RECURSIVE order_by_asc(_)
order_by_asc(rank) ==
    IF DOMAIN rank = {} THEN <<>>
    ELSE LET m == CHOOSE i \in DOMAIN rank :
                    \A j \in DOMAIN rank :
                        \/ rank[j] > rank[i]
                        \/ rank[j] = rank[i] /\ j >= i
         IN <<m>> \o order_by_asc([j \in DOMAIN rank \ {m} |-> rank[j]])

\* QuerySet.order_by("-key"): the ids of `rank`'s domain by descending rank.
\* Rows of equal rank come in an order the store does not fix; the model
\* takes them by ascending id.
RECURSIVE order_by_desc(_)
order_by_desc(rank) ==
    IF DOMAIN rank = {} THEN <<>>
    ELSE LET m == CHOOSE i \in DOMAIN rank :
                    \A j \in DOMAIN rank :
                        \/ rank[j] < rank[i]
                        \/ rank[j] = rank[i] /\ j >= i
         IN <<m>> \o order_by_desc([j \in DOMAIN rank \ {m} |-> rank[j]])

\* filter_user without the filter: every row of the table.
filter_user_all(table, user) == DOMAIN table

\* queryset.filter(user=...): the ids of the rows of `table` owned by `user`.
filter_user(table, user) == {i \in DOMAIN table : table[i].user = user}

\* RecipeViewSet.get_queryset
RecipeViewSet_get_queryset(table, user) ==
    order_by_desc([i \in filter_user(table, user) |-> i])

\* BaseRecipeAttrViewSet.get_queryset; the request's assigned_only parameter
\* is not read.
BaseRecipeAttrViewSet_get_queryset(table, through, user, assigned_only) ==
    order_by_desc([i \in filter_user(table, user) |-> NameRank[table[i].name]])

\* GenericAPIView.get_object: the row is looked up in get_queryset().
get_object(queryset, id) == id \in Range(queryset)

----------------------------------------------------------------------------
(* Serializers and the statements of the ORM *)

\* Serializer.is_valid: "title" stands for the required scalar fields, which
\* only a partial update may omit; "link" is optional.
is_valid(payload, partial) == partial \/ payload.title # Absent

\* validated_data with "user" among the fields of the serializer.
validated_data_with_user(payload) ==
    [title |-> payload.title, link |-> payload.link,
     has_tags |-> payload.has_tags, tags |-> payload.tags, user |-> payload.user]

\* Serializer.validated_data: the keys of the payload that are fields of
\* RecipeSerializer.Meta.fields.  "user" and "ingredients" are not, and are
\* dropped.
validated_data(payload) ==
    [title |-> payload.title, link |-> payload.link,
     has_tags |-> payload.has_tags, tags |-> payload.tags, user |-> Absent]

\* TagSerializer.Meta: the fields of a Tag the serializer reads and writes.
TagSerializer ==
    [model |-> "Tag", fields |-> {"id", "name"}, read_only_fields |-> {"id"}]

\* IngredientSerializer.Meta, the serializer IngredientViewSet names: the
\* same fields of an Ingredient.
IngredientSerializer ==
    [model |-> "Ingredient", fields |-> {"id", "name"}, read_only_fields |-> {"id"}]

\* The fields of a serializer a request can set.
writable(serializer) == serializer.fields \ serializer.read_only_fields

\* A store without the (user, name) constraint: no insert or update is
\* refused.
unique_violation_never(table, id, user, name) == FALSE

\* The (user, name) uniqueness of Tag and Ingredient rows: TRUE when a row
\* other than `id` already holds the pair.
unique_violation(table, id, user, name) ==
    \E i \in DOMAIN table \ {id} : table[i].user = user /\ table[i].name = name

\* The lookup of get_or_create without the user: any row of that name
\* matches.
get_or_create_by_name(table, user, name) ==
    {t \in DOMAIN table : table[t].name = name}

\* The lookup of get_or_create finding no row, whatever the table holds.
get_or_create_never(table, user, name) == {}

\* Tag.objects.get_or_create(user=user, name=name), its lookup: the rows
\* self.get(user=user, name=name) matches.
get_or_create(table, user, name) ==
    {t \in DOMAIN table : table[t].user = user /\ table[t].name = name}

\* recipe.tags.add(tag_obj): a pair already in the through table is not
\* inserted again.
add(through, recipe_id, tag_id) == through \cup {<<recipe_id, tag_id>>}

\* Model.save() of an instance that has an id, its first statement
\* (_do_update): UPDATE ... WHERE id = pk writes every field of the instance;
\* `updated` tells whether a row matched.
do_update(table, id, row) ==
    IF id \in DOMAIN table
    THEN [updated |-> TRUE, table |-> [table EXCEPT ![id] = row]]
    ELSE [updated |-> FALSE, table |-> table]

\* Model.save(), its second statement (_do_insert), run when the UPDATE
\* matched no row: INSERT of the instance with its id.  The primary key
\* refuses an id that is in the table again.
do_insert(table, id, row) ==
    IF id \in DOMAIN table
    THEN [raised |-> TRUE, table |-> table]
    ELSE [raised |-> FALSE, table |-> Insert(table, id, row)]

\* Collector.delete, its first statement: the rows of a through table that
\* reference the row to delete (column `col` holds its id).
fast_deletes(through, col, id) == {q \in through : q[col] = id}

\* Collector.delete, the foreign key check of the row's DELETE at COMMIT:
\* the rows of the through table that reference the row and are not among
\* those the transaction deleted.
references(through, col, id, deleted) == fast_deletes(through, col, id) \ deleted

\* An update that sets every field of the serializer, those the validated
\* data lacks to their default.
RecipeSerializer_update_all_fields(row, data) ==
    IF data.has_tags THEN [raised |-> TRUE, row |-> row]
    ELSE [raised |-> FALSE,
          row |-> [user |-> IF data.user = Absent THEN row.user ELSE data.user,
                   title |-> IF data.title = Absent THEN row.title ELSE data.title,
                   link |-> IF data.link = Absent THEN "" ELSE data.link]]

\* ModelSerializer.update as RecipeSerializer inherits it: a writable nested
\* field in the validated data raises; otherwise every attribute of the
\* validated data is set on the instance.
RecipeSerializer_update(row, data) ==
    IF data.has_tags THEN [raised |-> TRUE, row |-> row]
    ELSE [raised |-> FALSE,
          row |-> [user |-> IF data.user = Absent THEN row.user ELSE data.user,
                   title |-> IF data.title = Absent THEN row.title ELSE data.title,
                   link |-> IF data.link = Absent THEN row.link ELSE data.link]]

----------------------------------------------------------------------------
(* Inputs of the requests *)

\* Bodies of POST /recipes/: the payloads of the create tests with every
\* list of tag names up to MaxTagList, and one body each without the
\* required title, with a link, with a "user" key, with "ingredients".
CreatePayloads ==
    {Payload(t, Absent, FALSE, <<>>, Absent, FALSE) : t \in Titles}
    \cup {Payload("Curry", Absent, TRUE, l, Absent, FALSE) : l \in TagLists}
    \cup {Payload(Absent, Absent, TRUE, <<"Thai">>, Absent, FALSE),
          Payload("Curry", "pdf", FALSE, <<>>, Absent, FALSE),
          Payload("Curry", Absent, TRUE, <<"Thai">>, "u2", FALSE),
          Payload("Curry", Absent, FALSE, <<>>, Absent, TRUE)}

\* Bodies of PATCH /recipes/<id>/, as the update tests send them: one key
\* each.
PatchPayloads ==
    {Payload("Curry", Absent, FALSE, <<>>, Absent, FALSE),
     Payload(Absent, "pdf", FALSE, <<>>, Absent, FALSE),
     Payload(Absent, Absent, TRUE, <<>>, Absent, FALSE),
     Payload(Absent, Absent, TRUE, <<"Thai">>, Absent, FALSE),
     Payload(Absent, Absent, FALSE, <<>>, "u2", FALSE),
     Payload(Absent, Absent, FALSE, <<>>, Absent, TRUE)}

\* Bodies of PUT /recipes/<id>/: one with the required title, one without.
PutPayloads ==
    {Payload("Pongal", Absent, FALSE, <<>>, Absent, FALSE),
     Payload(Absent, "pdf", FALSE, <<>>, Absent, FALSE)}

UpdatePayloads(partial) == IF partial THEN PatchPayloads ELSE PutPayloads

RecipeIds == 1..MaxRecipes
TagIds == 1..MaxTags

\* The "name" of the body of PATCH and PUT /tags/<id>/; Absent for a body
\* that has no name.
TagNames == Names \cup {Absent}

\* The ids of the Ingredient rows, and the "name" of the body of PATCH and
\* PUT /ingredients/<id>/.
IngredientIds == 1..3
IngredientUpdateNames == IngredientNames \cup {Absent}

\* Rows made through the ORM before any request, as the tests make them:
\* each user has a recipe with an ingredient on it, and one user has a
\* second ingredient that is on no recipe, a tag on the recipe and a tag on
\* no recipe.
FixtureRecipes ==
    (1 :> [user |-> "u1", title |-> "Pongal", link |-> "pdf"])
    @@ (2 :> [user |-> "u2", title |-> "Pongal", link |-> "pdf"])

FixtureIngredients ==
    (1 :> [user |-> "u1", name |-> "Apples"])
    @@ (2 :> [user |-> "u1", name |-> "Turkey"])
    @@ (3 :> [user |-> "u2", name |-> "Apples"])

FixtureRecipeIngredients == {<<1, 1>>, <<2, 3>>}

FixtureTags ==
    (1 :> [user |-> "u1", name |-> "Thai"])
    @@ (2 :> [user |-> "u1", name |-> "Dinner"])

FixtureRecipeTags == {<<1, 1>>}

----------------------------------------------------------------------------
(* Initial states *)

\* The store after the migrations: no rows, no ids issued.
EmptyStore ==
    /\ recipes = EmptyTable
    /\ recipe_id_seq = 0
    /\ ingredients = EmptyTable
    /\ recipe_ingredients = {}
    /\ tags = EmptyTable
    /\ tag_id_seq = 0
    /\ recipe_tags = {}

\* The store with the rows of the fixture in it.
FixtureStore ==
    /\ recipes = FixtureRecipes
    /\ recipe_id_seq = Cardinality(DOMAIN FixtureRecipes)
    /\ ingredients = FixtureIngredients
    /\ recipe_ingredients = FixtureRecipeIngredients
    /\ tags = FixtureTags
    /\ tag_id_seq = Cardinality(DOMAIN FixtureTags)
    /\ recipe_tags = FixtureRecipeTags

\* The messages of wait_for_db.
WAITING == "Waiting for database..."
UNAVAILABLE == "Database unavailable, waiting 1 second..."
READY == "Database is ready!"

\* The server takes requests once wait_for_db has ended: the command has
\* written its two messages.
CommandDone ==
    /\ pc = "done"
    /\ db_up = TRUE
    /\ stdout = <<WAITING, READY>>
    /\ checks = <<>>
    /\ clock = 0

\* No request has arrived.
NoRequests ==
    /\ procs = <<>>
    /\ served = 0

Init ==
    /\ EmptyStore \/ FixtureStore
    /\ last = Response("none", FALSE, NoPayload, FALSE, 0, <<>>)
    /\ CommandDone
    /\ NoRequests

----------------------------------------------------------------------------
(* Requests in flight *)

\* The workers of the server: the requests that can be in flight at once.
Workers == {1, 2, 3}

\* A request being handled: the statement it runs next, its operation, its
\* user, the id of the row it acts on (for a create, of the row it made), its
\* body, the instance it holds, the tags still to attach, the tag in hand,
\* whether its insert lost to another request's, the through rows its
\* transaction has deleted and not committed (a delete), the status of its
\* response (0 while it runs), and whether it stays in `procs` once answered.
Request(op, user, id, partial, payload, row) ==
    [pc |-> "create", op |-> op, user |-> user, id |-> id, partial |-> partial,
     payload |-> payload, row |-> row, rest |-> <<>>, tag_obj |-> 0,
     lost |-> FALSE, del_tags |-> {}, del_ingredients |-> {},
     status |-> 0, keep |-> FALSE]

\* The through rows the transactions of the other requests in flight have
\* deleted and not committed: a DELETE that meets one of them waits for
\* that transaction to end.
LockedTags(p) ==
    UNION {procs[q].del_tags : q \in DOMAIN procs \ {p}}
LockedIngredients(p) ==
    UNION {procs[q].del_ingredients : q \in DOMAIN procs \ {p}}

\* The instance of a request that holds none.
NoRow == <<>>

\* `procs` with `req` as its p-th request; a request that arrives comes
\* after the others.
Put(p, req) ==
    IF p \in DOMAIN procs THEN [procs EXCEPT ![p] = req] ELSE Append(procs, req)

\* `procs` without its p-th request.
Drop(p) == SubSeq(procs, 1, p - 1) \o SubSeq(procs, p + 1, Len(procs))

\* The request has statements left: it stays (or comes) in flight, when a
\* worker is there to hold it, and nothing is answered yet.
Continue(p, req) ==
    /\ p <= Cardinality(Workers)
    /\ procs' = Put(p, req)
    /\ last' = last

\* The response of the request is sent: its worker is free.
Respond(p, req, status, data) ==
    /\ last' = Response(req.op, req.partial, req.payload, FALSE, status, data)
    /\ procs' = IF req.keep
                THEN Put(p, [req EXCEPT !.pc = "done", !.status = status])
                ELSE IF p \in DOMAIN procs THEN Drop(p) ELSE procs

\* A request arrives.
Arrive ==
    /\ served < MaxRequests
    /\ served' = served + 1
    /\ UNCHANGED command

\* A request in flight runs a statement.
Proceed == UNCHANGED <<command, served>>

----------------------------------------------------------------------------
(* Authentication and routing, ahead of every handler *)

\* permission_classes without IsAuthenticated: every request passes.
AllowAny(user) == TRUE

\* permission_classes = [IsAuthenticated], over TokenAuthentication: a
\* request passes when its token named a user.
IsAuthenticated(user) == user # AnonymousUser

\* APIView.initial refusing the request: permission_denied answers it and
\* the handler of the route does not run.  The response carries no rows and
\* is the same for every route.
NotAuthenticated ==
    /\ last' = Response("permission_denied", FALSE, NoPayload, FALSE,
                        HTTP_401_UNAUTHORIZED, <<>>)
    /\ UNCHANGED <<store, procs>>

\* The actions the mixins of BaseRecipeAttrViewSet give its routes.
BaseRecipeAttrViewSet_actions ==
    {"list", "update", "partial_update", "destroy"}

\* A request for an action the routes of the viewset do not offer:
\* http_method_not_allowed answers it.
MethodNotAllowed ==
    /\ last' = Response("http_method_not_allowed", FALSE, NoPayload, FALSE,
                        HTTP_405_METHOD_NOT_ALLOWED, <<>>)
    /\ UNCHANGED <<store, procs>>

----------------------------------------------------------------------------
(* Recipe endpoints: RecipeViewSet *)

\* GET /recipes/
RecipeList(u) ==
    /\ Arrive
    /\ IF ~IsAuthenticated(u)
       THEN NotAuthenticated
       ELSE /\ last' = Response("recipe_list", FALSE, NoPayload, FALSE,
                                HTTP_200_OK, RecipeViewSet_get_queryset(recipes, u))
            /\ UNCHANGED <<store, procs>>

\* GET /recipes/<id>/
RecipeRetrieve(u, id) ==
    /\ Arrive
    /\ IF ~IsAuthenticated(u)
       THEN NotAuthenticated
       ELSE LET respond(status, data) == Response("recipe_retrieve", FALSE, NoPayload, FALSE, status, data)
            IN  /\ last' = IF get_object(RecipeViewSet_get_queryset(recipes, u), id)
                           THEN respond(HTTP_200_OK, <<id>>)
                           ELSE respond(HTTP_404_NOT_FOUND, <<>>)
                /\ UNCHANGED <<store, procs>>

\* perform_create with a save() that passes no user: a "user" key of the
\* validated data, when there is one, names the owner of the row.
perform_create_no_user(request_user, payload) ==
    [validated_data(payload) EXCEPT
        !.user = IF payload.user = Absent THEN request_user ELSE payload.user]

\* RecipeViewSet.perform_create: serializer.save(user=self.request.user)
\* puts the user of the request in the validated data.
perform_create(request_user, payload) ==
    [validated_data(payload) EXCEPT !.user = request_user]

\* Where a create goes after a tag is attached, or when its list is empty:
\* to the next tag of the list, or to its response.
next_tag(p, req) ==
    IF req.rest = <<>>
    THEN Respond(p, req, HTTP_201_CREATED, <<req.id>>)
    ELSE Continue(p, [req EXCEPT !.pc = "get"])

\* The request ends with the exception unhandled.
server_error(p, req) == Respond(p, req, HTTP_500_SERVER_ERROR, <<>>)

\* RecipeSerializer.create, up to its first statement:
\* tags = validated_data.pop("tags", [])
\* recipe = Recipe.objects.create(**validated_data)
RecipeSerializer_create(p, req) ==
    LET data == perform_create(req.user, req.payload)
        id == recipe_id_seq + 1
        row == [user |-> data.user, title |-> data.title,
                link |-> IF data.link = Absent THEN "" ELSE data.link]
    IN  /\ recipe_id_seq < MaxRecipes
        /\ recipes' = Insert(recipes, id, row)
        /\ recipe_id_seq' = id
        /\ next_tag(p, [req EXCEPT !.id = id,
                                   !.rest = IF data.has_tags THEN data.tags ELSE <<>>])
        /\ UNCHANGED <<tags, tag_id_seq, ingredients, recipe_tags, recipe_ingredients>>

\* POST /recipes/
RecipeCreate(u, payload) ==
    /\ Arrive
    /\ IF ~IsAuthenticated(u)
       THEN NotAuthenticated
       ELSE LET req == Request("recipe_create", u, 0, FALSE, payload, NoRow)
            IN  IF ~is_valid(payload, FALSE)
                THEN /\ Respond(Len(procs) + 1, req, HTTP_400_BAD_REQUEST, <<>>)
                     /\ UNCHANGED store
                ELSE RecipeSerializer_create(Len(procs) + 1, req)

\* A POST /recipes/ that has arrived and not run a statement.
ReqCreateRecipe(p) ==
    /\ p \in DOMAIN procs
    /\ procs[p].pc = "create"
    /\ Proceed
    /\ RecipeSerializer_create(p, procs[p])

\* get_or_create, its lookup: self.get(user=auth_user, name=...); get()
\* raises when more than one row matches.
ReqGet(p) ==
    /\ p \in DOMAIN procs
    /\ procs[p].pc = "get"
    /\ Proceed
    /\ LET req == procs[p]
           found == get_or_create(tags, req.user, Head(req.rest))
       IN  /\ IF Cardinality(found) > 1 THEN server_error(p, req)
              ELSE IF found # {}
              THEN Continue(p, [req EXCEPT !.pc = "add",
                                           !.tag_obj = CHOOSE t \in found : TRUE])
              ELSE Continue(p, [req EXCEPT !.pc = "insert"])
           /\ UNCHANGED store

\* get_or_create, after DoesNotExist: self.create(user=auth_user, name=...).
\* The store refuses a (user, name) pair it already holds: IntegrityError.
ReqInsert(p) ==
    /\ p \in DOMAIN procs
    /\ procs[p].pc = "insert"
    /\ Proceed
    /\ LET req == procs[p]
       IN  /\ IF unique_violation(tags, 0, req.user, Head(req.rest))
              THEN /\ Continue(p, [req EXCEPT !.pc = "get_again", !.lost = TRUE])
                   /\ UNCHANGED <<tags, tag_id_seq>>
              ELSE /\ tags' = Insert(tags, tag_id_seq + 1,
                                     [user |-> req.user, name |-> Head(req.rest)])
                   /\ tag_id_seq' = tag_id_seq + 1
                   /\ Continue(p, [req EXCEPT !.pc = "add", !.tag_obj = tag_id_seq + 1])
           /\ UNCHANGED <<recipes, recipe_id_seq, ingredients, recipe_tags,
                          recipe_ingredients>>

\* get_or_create, after IntegrityError: self.get(...) once more; the
\* IntegrityError is raised again when the row is not there.
ReqGetAgain(p) ==
    /\ p \in DOMAIN procs
    /\ procs[p].pc = "get_again"
    /\ Proceed
    /\ LET req == procs[p]
           found == get_or_create(tags, req.user, Head(req.rest))
       IN  /\ IF Cardinality(found) = 1
              THEN Continue(p, [req EXCEPT !.pc = "add",
                                           !.tag_obj = CHOOSE t \in found : TRUE])
              ELSE server_error(p, req)
           /\ UNCHANGED store

\* recipe.tags.add(tag_obj).  The through row refers to the Recipe row and
\* to the Tag row: the store refuses it (IntegrityError) when another
\* request has deleted either.
ReqAdd(p) ==
    /\ p \in DOMAIN procs
    /\ procs[p].pc = "add"
    /\ Proceed
    /\ LET req == procs[p]
       IN  /\ IF req.id \in DOMAIN recipes /\ req.tag_obj \in DOMAIN tags
              THEN /\ recipe_tags' = add(recipe_tags, req.id, req.tag_obj)
                   /\ next_tag(p, [req EXCEPT !.rest = Tail(req.rest)])
              ELSE /\ server_error(p, req)
                   /\ UNCHANGED recipe_tags
           /\ UNCHANGED <<recipes, recipe_id_seq, tags, tag_id_seq, ingredients,
                          recipe_ingredients>>

\* The store raises at the next statement of a create (the database is
\* gone): the statements before it have committed.
ReqFault(p) ==
    /\ p \in DOMAIN procs
    /\ procs[p].pc \in {"get", "insert", "get_again", "add"}
    /\ Proceed
    /\ server_error(p, procs[p])
    /\ UNCHANGED store

\* UpdateModelMixin.update on RecipeViewSet, up to the save: get_object,
\* validation, then the serializer's update, which sets the validated fields
\* on the instance get_object read.
recipe_update(table, u, id, partial, payload) ==
    IF ~get_object(RecipeViewSet_get_queryset(table, u), id)
    THEN [status |-> HTTP_404_NOT_FOUND, row |-> NoRow]
    ELSE IF ~is_valid(payload, partial)
    THEN [status |-> HTTP_400_BAD_REQUEST, row |-> NoRow]
    ELSE LET out == RecipeSerializer_update(table[id], validated_data(payload))
         IN  IF out.raised
             THEN [status |-> HTTP_500_SERVER_ERROR, row |-> NoRow]
             ELSE [status |-> HTTP_200_OK, row |-> out.row]

\* PATCH (partial) and PUT /recipes/<id>/, up to the save of the instance.
RecipeUpdate(u, id, partial, payload) ==
    /\ Arrive
    /\ IF ~IsAuthenticated(u)
       THEN NotAuthenticated
       ELSE LET out == recipe_update(recipes, u, id, partial, payload)
                req == Request("recipe_update", u, id, partial, payload, out.row)
            IN  /\ IF out.status = HTTP_200_OK
                   THEN Continue(Len(procs) + 1, [req EXCEPT !.pc = "save"])
                   ELSE Respond(Len(procs) + 1, req, out.status, <<>>)
                /\ UNCHANGED store

\* ModelSerializer.update: instance.save(), its UPDATE.  When the row is
\* there the request is answered with it; when no row matched, the save
\* goes on to its INSERT.
ReqSaveRecipe(p) ==
    /\ p \in DOMAIN procs
    /\ procs[p].pc = "save"
    /\ procs[p].op = "recipe_update"
    /\ Proceed
    /\ LET req == procs[p]
           out == do_update(recipes, req.id, req.row)
       IN  /\ recipes' = out.table
           /\ IF out.updated
              THEN Respond(p, req, HTTP_200_OK, <<req.id>>)
              ELSE Continue(p, [req EXCEPT !.pc = "save_insert"])
           /\ UNCHANGED <<recipe_id_seq, tags, tag_id_seq, ingredients,
                          recipe_tags, recipe_ingredients>>

\* instance.save(), its INSERT: the row comes back with its id, unless
\* another save has inserted it by now (IntegrityError).
ReqSaveRecipeInsert(p) ==
    /\ p \in DOMAIN procs
    /\ procs[p].pc = "save_insert"
    /\ procs[p].op = "recipe_update"
    /\ Proceed
    /\ LET req == procs[p]
           out == do_insert(recipes, req.id, req.row)
       IN  /\ recipes' = out.table
           /\ IF out.raised
              THEN server_error(p, req)
              ELSE Respond(p, req, HTTP_200_OK, <<req.id>>)
           /\ UNCHANGED <<recipe_id_seq, tags, tag_id_seq, ingredients,
                          recipe_tags, recipe_ingredients>>

\* DELETE /recipes/<id>/, up to the delete: get_object.
RecipeDestroy(u, id) ==
    /\ Arrive
    /\ IF ~IsAuthenticated(u)
       THEN NotAuthenticated
       ELSE LET req == Request("recipe_destroy", u, id, FALSE, NoPayload, NoRow)
            IN  /\ IF get_object(RecipeViewSet_get_queryset(recipes, u), id)
                   THEN Continue(Len(procs) + 1, [req EXCEPT !.pc = "delete"])
                   ELSE Respond(Len(procs) + 1, req, HTTP_404_NOT_FOUND, <<>>)
                /\ UNCHANGED store

\* DestroyModelMixin.perform_destroy: instance.delete(), which runs
\* Collector.delete in one transaction.  Its first statement is the DELETE
\* of the rows of the through table of Recipe.tags that reference the
\* recipe; they stay in the store, as the other requests see it, until the
\* transaction commits.
ReqDeleteRecipe(p) ==
    /\ p \in DOMAIN procs
    /\ procs[p].pc = "delete"
    /\ procs[p].op = "recipe_destroy"
    /\ Proceed
    /\ LET req == procs[p]
           del_tags == fast_deletes(recipe_tags, 1, req.id)
       IN  /\ del_tags \cap LockedTags(p) = {}
           /\ Continue(p, [req EXCEPT !.pc = "delete_ingredients",
                                      !.del_tags = del_tags])
           /\ UNCHANGED store

\* Collector.delete, its second statement: the DELETE of the rows of the
\* through table of Recipe.ingredients that reference the recipe, in the
\* same transaction.
ReqDeleteRecipeIngredients(p) ==
    /\ p \in DOMAIN procs
    /\ procs[p].pc = "delete_ingredients"
    /\ procs[p].op = "recipe_destroy"
    /\ Proceed
    /\ LET req == procs[p]
           del_ingredients == fast_deletes(recipe_ingredients, 1, req.id)
       IN  /\ del_ingredients \cap LockedIngredients(p) = {}
           /\ Continue(p, [req EXCEPT !.pc = "delete_row",
                                      !.del_ingredients = del_ingredients])
           /\ UNCHANGED store

\* Collector.delete, the DELETE of the row and the COMMIT.  A through row
\* that has come to reference the recipe since the statement that deleted
\* those of its table fails the foreign key: IntegrityError, the
\* transaction is rolled back and nothing is deleted.  A row that is gone
\* already is not an error.
ReqDeleteRecipeRow(p) ==
    /\ p \in DOMAIN procs
    /\ procs[p].pc = "delete_row"
    /\ procs[p].op = "recipe_destroy"
    /\ Proceed
    /\ LET req == procs[p]
       IN  /\ IF \/ references(recipe_tags, 1, req.id, req.del_tags) # {}
                 \/ references(recipe_ingredients, 1, req.id, req.del_ingredients) # {}
              THEN /\ server_error(p, req)
                   /\ UNCHANGED <<recipes, recipe_tags, recipe_ingredients>>
              ELSE /\ recipes' = Delete(recipes, req.id)
                   /\ recipe_tags' = recipe_tags \ req.del_tags
                   /\ recipe_ingredients' = recipe_ingredients \ req.del_ingredients
                   /\ Respond(p, req, HTTP_204_NO_CONTENT, <<>>)
           /\ UNCHANGED <<recipe_id_seq, tags, tag_id_seq, ingredients>>

----------------------------------------------------------------------------
(* Tag endpoints: TagViewSet over BaseRecipeAttrViewSet *)

\* UpdateModelMixin.update (PUT) and partial_update (PATCH, partial=True)
\* on a Tag or an Ingredient row, up to the save: get_object, validation by
\* the serializer of the viewset (the name is required unless the update is
\* partial), then the validated name, when the body has one, is set on the
\* instance get_object read.
attr_update(serializer, table, user, id, partial, name) ==
    IF ~get_object(BaseRecipeAttrViewSet_get_queryset(table, {}, user, FALSE), id)
    THEN [status |-> HTTP_404_NOT_FOUND, row |-> NoRow]
    ELSE IF ~partial /\ "name" \in writable(serializer) /\ name = Absent
    THEN [status |-> HTTP_400_BAD_REQUEST, row |-> NoRow]
    ELSE [status |-> HTTP_200_OK,
          row |-> IF "name" \in writable(serializer) /\ name # Absent
                  THEN [table[id] EXCEPT !.name = name] ELSE table[id]]

\* GET /tags/?assigned_only=
TagList(u, assigned_only) ==
    /\ Arrive
    /\ IF ~IsAuthenticated(u)
       THEN NotAuthenticated
       ELSE /\ last' = Response("tag_list", FALSE, NoPayload, assigned_only,
                                HTTP_200_OK,
                                BaseRecipeAttrViewSet_get_queryset(tags, recipe_tags, u, assigned_only))
            /\ UNCHANGED <<store, procs>>

\* PATCH (partial) and PUT /tags/<id>/, up to the save of the instance.
TagUpdate(u, id, partial, name) ==
    /\ Arrive
    /\ IF ~IsAuthenticated(u)
       THEN NotAuthenticated
       ELSE LET out == attr_update(TagSerializer, tags, u, id, partial, name)
                req == Request("tag_update", u, id, partial, NoPayload, out.row)
            IN  /\ IF out.status = HTTP_200_OK
                   THEN Continue(Len(procs) + 1, [req EXCEPT !.pc = "save"])
                   ELSE Respond(Len(procs) + 1, req, out.status, <<>>)
                /\ UNCHANGED store

\* ModelSerializer.update: instance.save(), its UPDATE.  When the row is
\* there, a name the user already has on another row is refused by the
\* store (IntegrityError), and otherwise the request is answered with the
\* row; when no row matched, the save goes on to its INSERT.
ReqSaveTag(p) ==
    /\ p \in DOMAIN procs
    /\ procs[p].pc = "save"
    /\ procs[p].op = "tag_update"
    /\ Proceed
    /\ LET req == procs[p]
           out == do_update(tags, req.id, req.row)
       IN  /\ IF ~out.updated
              THEN /\ Continue(p, [req EXCEPT !.pc = "save_insert"])
                   /\ UNCHANGED tags
              ELSE IF unique_violation(tags, req.id, req.row.user, req.row.name)
              THEN /\ server_error(p, req)
                   /\ UNCHANGED tags
              ELSE /\ tags' = out.table
                   /\ Respond(p, req, HTTP_200_OK, <<req.id>>)
           /\ UNCHANGED <<recipes, recipe_id_seq, tag_id_seq, ingredients,
                          recipe_tags, recipe_ingredients>>

\* instance.save(), its INSERT: the row comes back with its id, unless
\* another save has inserted it by now, or the user has the name on another
\* row (IntegrityError).
ReqSaveTagInsert(p) ==
    /\ p \in DOMAIN procs
    /\ procs[p].pc = "save_insert"
    /\ procs[p].op = "tag_update"
    /\ Proceed
    /\ LET req == procs[p]
           out == do_insert(tags, req.id, req.row)
       IN  /\ IF \/ out.raised
                 \/ unique_violation(tags, req.id, req.row.user, req.row.name)
              THEN /\ server_error(p, req)
                   /\ UNCHANGED tags
              ELSE /\ tags' = out.table
                   /\ Respond(p, req, HTTP_200_OK, <<req.id>>)
           /\ UNCHANGED <<recipes, recipe_id_seq, tag_id_seq, ingredients,
                          recipe_tags, recipe_ingredients>>

\* DELETE /tags/<id>/, up to the delete: get_object.
TagDestroy(u, id) ==
    /\ Arrive
    /\ IF ~IsAuthenticated(u)
       THEN NotAuthenticated
       ELSE LET req == Request("tag_destroy", u, id, FALSE, NoPayload, NoRow)
            IN  /\ IF get_object(BaseRecipeAttrViewSet_get_queryset(
                                    tags, recipe_tags, u, FALSE), id)
                   THEN Continue(Len(procs) + 1, [req EXCEPT !.pc = "delete"])
                   ELSE Respond(Len(procs) + 1, req, HTTP_404_NOT_FOUND, <<>>)
                /\ UNCHANGED store

\* DestroyModelMixin.perform_destroy: instance.delete(), which runs
\* Collector.delete in one transaction.  Its first statement is the DELETE
\* of the through rows of the tag; they stay in the store, as the other
\* requests see it, until the transaction commits.
ReqDeleteTag(p) ==
    /\ p \in DOMAIN procs
    /\ procs[p].pc = "delete"
    /\ procs[p].op = "tag_destroy"
    /\ Proceed
    /\ LET req == procs[p]
           del_tags == fast_deletes(recipe_tags, 2, req.id)
       IN  /\ del_tags \cap LockedTags(p) = {}
           /\ Continue(p, [req EXCEPT !.pc = "delete_row", !.del_tags = del_tags])
           /\ UNCHANGED store

\* Collector.delete, the DELETE of the row and the COMMIT.  A through row
\* that has come to reference the tag since the first statement fails the
\* foreign key: IntegrityError, the transaction is rolled back and nothing
\* is deleted.  A row that is gone already is not an error.
ReqDeleteTagRow(p) ==
    /\ p \in DOMAIN procs
    /\ procs[p].pc = "delete_row"
    /\ procs[p].op = "tag_destroy"
    /\ Proceed
    /\ LET req == procs[p]
       IN  /\ IF references(recipe_tags, 2, req.id, req.del_tags) # {}
              THEN /\ server_error(p, req)
                   /\ UNCHANGED <<tags, recipe_tags>>
              ELSE /\ tags' = Delete(tags, req.id)
                   /\ recipe_tags' = recipe_tags \ req.del_tags
                   /\ Respond(p, req, HTTP_204_NO_CONTENT, <<>>)
           /\ UNCHANGED <<recipes, recipe_id_seq, tag_id_seq, ingredients,
                          recipe_ingredients>>

\* POST /tags/: CreateModelMixin is not among the mixins of
\* BaseRecipeAttrViewSet, and the route has no handler for the method.
TagCreate(u, name) ==
    /\ Arrive
    /\ IF ~IsAuthenticated(u)
       THEN NotAuthenticated
       ELSE /\ "create" \notin BaseRecipeAttrViewSet_actions
            /\ MethodNotAllowed

\* GET /tags/<id>/: RetrieveModelMixin is not among the mixins either.
TagRetrieve(u, id) ==
    /\ Arrive
    /\ IF ~IsAuthenticated(u)
       THEN NotAuthenticated
       ELSE /\ "retrieve" \notin BaseRecipeAttrViewSet_actions
            /\ MethodNotAllowed

----------------------------------------------------------------------------
(* Ingredient endpoints: IngredientViewSet over BaseRecipeAttrViewSet *)

\* GET /ingredients/?assigned_only=
IngredientList(u, assigned_only) ==
    /\ Arrive
    /\ IF ~IsAuthenticated(u)
       THEN NotAuthenticated
       ELSE /\ last' = Response("ingredient_list", FALSE, NoPayload, assigned_only,
                                HTTP_200_OK,
                                BaseRecipeAttrViewSet_get_queryset(
                                    ingredients, recipe_ingredients, u, assigned_only))
            /\ UNCHANGED <<store, procs>>

\* PATCH (partial) and PUT /ingredients/<id>/, up to the save of the
\* instance.
IngredientUpdate(u, id, partial, name) ==
    /\ Arrive
    /\ IF ~IsAuthenticated(u)
       THEN NotAuthenticated
       ELSE LET out == attr_update(IngredientSerializer, ingredients, u, id, partial, name)
                req == Request("ingredient_update", u, id, partial, NoPayload, out.row)
            IN  /\ IF out.status = HTTP_200_OK
                   THEN Continue(Len(procs) + 1, [req EXCEPT !.pc = "save"])
                   ELSE Respond(Len(procs) + 1, req, out.status, <<>>)
                /\ UNCHANGED store

\* ModelSerializer.update: instance.save(), its UPDATE.  When the row is
\* there, a name the user already has on another row is refused by the
\* store (IntegrityError), and otherwise the request is answered with the
\* row; when no row matched, the save goes on to its INSERT.
ReqSaveIngredient(p) ==
    /\ p \in DOMAIN procs
    /\ procs[p].pc = "save"
    /\ procs[p].op = "ingredient_update"
    /\ Proceed
    /\ LET req == procs[p]
           out == do_update(ingredients, req.id, req.row)
       IN  /\ IF ~out.updated
              THEN /\ Continue(p, [req EXCEPT !.pc = "save_insert"])
                   /\ UNCHANGED ingredients
              ELSE IF unique_violation(ingredients, req.id, req.row.user, req.row.name)
              THEN /\ server_error(p, req)
                   /\ UNCHANGED ingredients
              ELSE /\ ingredients' = out.table
                   /\ Respond(p, req, HTTP_200_OK, <<req.id>>)
           /\ UNCHANGED <<recipes, recipe_id_seq, tags, tag_id_seq,
                          recipe_tags, recipe_ingredients>>

\* instance.save(), its INSERT: the row comes back with its id, unless
\* another save has inserted it by now, or the user has the name on another
\* row (IntegrityError).
ReqSaveIngredientInsert(p) ==
    /\ p \in DOMAIN procs
    /\ procs[p].pc = "save_insert"
    /\ procs[p].op = "ingredient_update"
    /\ Proceed
    /\ LET req == procs[p]
           out == do_insert(ingredients, req.id, req.row)
       IN  /\ IF \/ out.raised
                 \/ unique_violation(ingredients, req.id, req.row.user, req.row.name)
              THEN /\ server_error(p, req)
                   /\ UNCHANGED ingredients
              ELSE /\ ingredients' = out.table
                   /\ Respond(p, req, HTTP_200_OK, <<req.id>>)
           /\ UNCHANGED <<recipes, recipe_id_seq, tags, tag_id_seq,
                          recipe_tags, recipe_ingredients>>

\* DELETE /ingredients/<id>/, up to the delete: get_object.
IngredientDestroy(u, id) ==
    /\ Arrive
    /\ IF ~IsAuthenticated(u)
       THEN NotAuthenticated
       ELSE LET req == Request("ingredient_destroy", u, id, FALSE, NoPayload, NoRow)
            IN  /\ IF get_object(BaseRecipeAttrViewSet_get_queryset(
                                    ingredients, recipe_ingredients, u, FALSE), id)
                   THEN Continue(Len(procs) + 1, [req EXCEPT !.pc = "delete"])
                   ELSE Respond(Len(procs) + 1, req, HTTP_404_NOT_FOUND, <<>>)
                /\ UNCHANGED store

\* instance.delete() of an Ingredient, its first statement: the DELETE of
\* the through rows of the ingredient, private to the transaction until it
\* commits.
ReqDeleteIngredient(p) ==
    /\ p \in DOMAIN procs
    /\ procs[p].pc = "delete"
    /\ procs[p].op = "ingredient_destroy"
    /\ Proceed
    /\ LET req == procs[p]
           del_ingredients == fast_deletes(recipe_ingredients, 2, req.id)
       IN  /\ del_ingredients \cap LockedIngredients(p) = {}
           /\ Continue(p, [req EXCEPT !.pc = "delete_row",
                                      !.del_ingredients = del_ingredients])
           /\ UNCHANGED store

\* Collector.delete, the DELETE of the Ingredient row and the COMMIT, with
\* the foreign key check of the through table.
ReqDeleteIngredientRow(p) ==
    /\ p \in DOMAIN procs
    /\ procs[p].pc = "delete_row"
    /\ procs[p].op = "ingredient_destroy"
    /\ Proceed
    /\ LET req == procs[p]
       IN  /\ IF references(recipe_ingredients, 2, req.id, req.del_ingredients) # {}
              THEN /\ server_error(p, req)
                   /\ UNCHANGED <<ingredients, recipe_ingredients>>
              ELSE /\ ingredients' = Delete(ingredients, req.id)
                   /\ recipe_ingredients' = recipe_ingredients \ req.del_ingredients
                   /\ Respond(p, req, HTTP_204_NO_CONTENT, <<>>)
           /\ UNCHANGED <<recipes, recipe_id_seq, tags, tag_id_seq, recipe_tags>>

\* POST /ingredients/: no handler for the method.
IngredientCreate(u, name) ==
    /\ Arrive
    /\ IF ~IsAuthenticated(u)
       THEN NotAuthenticated
       ELSE /\ "create" \notin BaseRecipeAttrViewSet_actions
            /\ MethodNotAllowed

\* GET /ingredients/<id>/: no handler for the method.
IngredientRetrieve(u, id) ==
    /\ Arrive
    /\ IF ~IsAuthenticated(u)
       THEN NotAuthenticated
       ELSE /\ "retrieve" \notin BaseRecipeAttrViewSet_actions
            /\ MethodNotAllowed

----------------------------------------------------------------------------
(* Specification *)

\* The body of a request without a token: a recipe with a tag.
AnonymousPayload == Payload("Curry", Absent, TRUE, <<"Thai">>, Absent, FALSE)

\* The routes of the viewsets the server has, by the name of their action.
RecipeRoutes ==
    {"recipe_list", "recipe_create", "recipe_retrieve", "recipe_update", "recipe_destroy"}
AttrRoutes ==
    {"tag_list", "tag_update", "tag_destroy",
     "ingredient_list", "ingredient_update", "ingredient_destroy"}
UnofferedRoutes ==
    {"tag_create", "tag_retrieve", "ingredient_create", "ingredient_retrieve"}
Routes == RecipeRoutes \cup AttrRoutes \cup UnofferedRoutes

\* A request without a valid token to the route `op`.
AnonymousRoute(op) ==
    CASE op = "recipe_list" -> RecipeList(AnonymousUser)
      [] op = "recipe_create" -> RecipeCreate(AnonymousUser, AnonymousPayload)
      [] op = "recipe_retrieve" -> \E id \in RecipeIds : RecipeRetrieve(AnonymousUser, id)
      [] op = "recipe_update" ->
            \E id \in RecipeIds : RecipeUpdate(AnonymousUser, id, TRUE, AnonymousPayload)
      [] op = "recipe_destroy" -> \E id \in RecipeIds : RecipeDestroy(AnonymousUser, id)
      [] op = "tag_list" ->
            \E assigned_only \in BOOLEAN : TagList(AnonymousUser, assigned_only)
      [] op = "tag_update" -> \E id \in TagIds : TagUpdate(AnonymousUser, id, TRUE, "Thai")
      [] op = "tag_destroy" -> \E id \in TagIds : TagDestroy(AnonymousUser, id)
      [] op = "tag_create" -> TagCreate(AnonymousUser, "Thai")
      [] op = "tag_retrieve" -> \E id \in TagIds : TagRetrieve(AnonymousUser, id)
      [] op = "ingredient_list" ->
            \E assigned_only \in BOOLEAN : IngredientList(AnonymousUser, assigned_only)
      [] op = "ingredient_update" ->
            \E id \in IngredientIds : IngredientUpdate(AnonymousUser, id, TRUE, "Apples")
      [] op = "ingredient_destroy" ->
            \E id \in IngredientIds : IngredientDestroy(AnonymousUser, id)
      [] op = "ingredient_create" -> IngredientCreate(AnonymousUser, "Apples")
      [] op = "ingredient_retrieve" ->
            \E id \in IngredientIds : IngredientRetrieve(AnonymousUser, id)

\* A request without a valid token, to each route of the viewsets.
AnonymousRequest == \E op \in Routes : AnonymousRoute(op)

\* A request arrives and runs up to its first store statement, or a request
\* in flight runs its next one.
Next ==
    \/ \E u \in Users : RecipeList(u)
    \/ \E u \in Users, id \in RecipeIds : RecipeRetrieve(u, id)
    \/ \E u \in Users, payload \in CreatePayloads : RecipeCreate(u, payload)
    \/ \E u \in Users, id \in RecipeIds, partial \in BOOLEAN :
            \E payload \in UpdatePayloads(partial) : RecipeUpdate(u, id, partial, payload)
    \/ \E u \in Users, id \in RecipeIds : RecipeDestroy(u, id)
    \/ \E u \in Users, assigned_only \in BOOLEAN : TagList(u, assigned_only)
    \/ \E u \in Users, id \in TagIds, partial \in BOOLEAN, name \in TagNames :
            TagUpdate(u, id, partial, name)
    \/ \E u \in Users, id \in TagIds : TagDestroy(u, id)
    \/ \E u \in Users, name \in Names : TagCreate(u, name)
    \/ \E u \in Users, id \in TagIds : TagRetrieve(u, id)
    \/ \E u \in Users, assigned_only \in BOOLEAN : IngredientList(u, assigned_only)
    \/ \E u \in Users, id \in IngredientIds, partial \in BOOLEAN :
            \E name \in IngredientUpdateNames : IngredientUpdate(u, id, partial, name)
    \/ \E u \in Users, id \in IngredientIds : IngredientDestroy(u, id)
    \/ \E u \in Users, name \in IngredientNames : IngredientCreate(u, name)
    \/ \E u \in Users, id \in IngredientIds : IngredientRetrieve(u, id)
    \/ AnonymousRequest
    \/ \E p \in Workers : ReqGet(p)
    \/ \E p \in Workers : ReqInsert(p)
    \/ \E p \in Workers : ReqGetAgain(p)
    \/ \E p \in Workers : ReqAdd(p)
    \/ \E p \in Workers : ReqFault(p)
    \/ \E p \in Workers : ReqSaveRecipe(p)
    \/ \E p \in Workers : ReqSaveRecipeInsert(p)
    \/ \E p \in Workers : ReqDeleteRecipe(p)
    \/ \E p \in Workers : ReqDeleteRecipeIngredients(p)
    \/ \E p \in Workers : ReqDeleteRecipeRow(p)
    \/ \E p \in Workers : ReqSaveTag(p)
    \/ \E p \in Workers : ReqSaveTagInsert(p)
    \/ \E p \in Workers : ReqDeleteTag(p)
    \/ \E p \in Workers : ReqDeleteTagRow(p)
    \/ \E p \in Workers : ReqSaveIngredient(p)
    \/ \E p \in Workers : ReqSaveIngredientInsert(p)
    \/ \E p \in Workers : ReqDeleteIngredient(p)
    \/ \E p \in Workers : ReqDeleteIngredientRow(p)

Spec == Init /\ [][Next]_vars

----------------------------------------------------------------------------
(* One request at a time: a request arrives when none is in flight.        *)

\* No request is in flight.
Idle == procs = <<>>

\* The steps of Next that a request handled alone takes.  The second lookup
\* of get_or_create and the INSERT of a save run only after a statement of
\* another request, and are not among them.
SerialNext ==
    \/ Idle /\ \E u \in Users : RecipeList(u)
    \/ Idle /\ \E u \in Users, id \in RecipeIds : RecipeRetrieve(u, id)
    \/ Idle /\ \E u \in Users, payload \in CreatePayloads : RecipeCreate(u, payload)
    \/ Idle /\ \E u \in Users, id \in RecipeIds, partial \in BOOLEAN :
            \E payload \in UpdatePayloads(partial) : RecipeUpdate(u, id, partial, payload)
    \/ Idle /\ \E u \in Users, id \in RecipeIds : RecipeDestroy(u, id)
    \/ Idle /\ \E u \in Users, assigned_only \in BOOLEAN : TagList(u, assigned_only)
    \/ Idle /\ \E u \in Users, id \in TagIds, partial \in BOOLEAN, name \in TagNames :
            TagUpdate(u, id, partial, name)
    \/ Idle /\ \E u \in Users, id \in TagIds : TagDestroy(u, id)
    \/ Idle /\ \E u \in Users, name \in Names : TagCreate(u, name)
    \/ Idle /\ \E u \in Users, id \in TagIds : TagRetrieve(u, id)
    \/ Idle /\ \E u \in Users, assigned_only \in BOOLEAN : IngredientList(u, assigned_only)
    \/ Idle /\ \E u \in Users, id \in IngredientIds, partial \in BOOLEAN :
            \E name \in IngredientUpdateNames : IngredientUpdate(u, id, partial, name)
    \/ Idle /\ \E u \in Users, id \in IngredientIds : IngredientDestroy(u, id)
    \/ Idle /\ \E u \in Users, name \in IngredientNames : IngredientCreate(u, name)
    \/ Idle /\ \E u \in Users, id \in IngredientIds : IngredientRetrieve(u, id)
    \/ Idle /\ AnonymousRequest
    \/ \E p \in DOMAIN procs : ReqGet(p)
    \/ \E p \in DOMAIN procs : ReqInsert(p)
    \/ \E p \in DOMAIN procs : ReqAdd(p)
    \/ \E p \in DOMAIN procs : ReqFault(p)
    \/ \E p \in DOMAIN procs : ReqSaveRecipe(p)
    \/ \E p \in DOMAIN procs : ReqDeleteRecipe(p)
    \/ \E p \in DOMAIN procs : ReqDeleteRecipeIngredients(p)
    \/ \E p \in DOMAIN procs : ReqDeleteRecipeRow(p)
    \/ \E p \in DOMAIN procs : ReqSaveTag(p)
    \/ \E p \in DOMAIN procs : ReqDeleteTag(p)
    \/ \E p \in DOMAIN procs : ReqDeleteTagRow(p)
    \/ \E p \in DOMAIN procs : ReqSaveIngredient(p)
    \/ \E p \in DOMAIN procs : ReqDeleteIngredient(p)
    \/ \E p \in DOMAIN procs : ReqDeleteIngredientRow(p)

SerialSpec == Init /\ [][SerialNext]_vars

----------------------------------------------------------------------------
(* The wait_for_db command: Command.handle, statement by statement *)

\* time.sleep(1)
SLEEP_SECONDS == 1

\* What a call of self.check(databases=['default']) can raise.
Psycopg2Error == "psycopg2.OperationalError"
OperationalError == "django.db.utils.OperationalError"
SystemCheckError == "django.core.management.base.SystemCheckError"
Exceptions == {Psycopg2Error, OperationalError, SystemCheckError}

\* An except clause that names the Django error only.
except_clause_django_only(exc) == exc = OperationalError

\* A bare except clause.
except_clause_bare(exc) == TRUE

\* except (Psycopg2Error, OperationalError):
except_clause(exc) == exc \in {Psycopg2Error, OperationalError}

\* The command is started against a database whose coming checks raise the
\* exceptions of `checks`, in that order, and return from then on.
WaitInit ==
    /\ pc = "start"
    /\ db_up = FALSE
    /\ stdout = <<>>
    /\ clock = 0
    /\ checks \in UNION {[1..n -> Exceptions] : n \in 0..MaxFailures}
    /\ EmptyStore
    /\ last = Response("none", FALSE, NoPayload, FALSE, 0, <<>>)
    /\ NoRequests

\* self.stdout.write("Waiting for database..."); db_up = False
Start ==
    /\ pc = "start"
    /\ stdout' = Append(stdout, WAITING)
    /\ db_up' = FALSE
    /\ pc' = "while"
    /\ UNCHANGED <<checks, clock, store, last, requests>>

\* while db_up == False:
While ==
    /\ pc = "while"
    /\ pc' = IF db_up = FALSE THEN "check" ELSE "ready"
    /\ UNCHANGED <<db_up, stdout, checks, clock, store, last, requests>>

\* try: self.check(databases=['default']); db_up = True
\* except (Psycopg2Error, OperationalError): self.stdout.write(...)
\* An exception the clause does not name leaves handle().
Check ==
    /\ pc = "check"
    /\ IF checks = <<>>
       THEN /\ db_up' = TRUE
            /\ pc' = "while"
            /\ UNCHANGED <<stdout, checks>>
       ELSE /\ checks' = Tail(checks)
            /\ IF except_clause(Head(checks))
               THEN /\ stdout' = Append(stdout, UNAVAILABLE)
                    /\ pc' = "sleep"
               ELSE /\ stdout' = stdout
                    /\ pc' = "raised"
            /\ UNCHANGED db_up
    /\ UNCHANGED <<clock, store, last, requests>>

\* time.sleep(1), the last statement of the except clause
Sleep ==
    /\ pc = "sleep"
    /\ clock' = clock + SLEEP_SECONDS
    /\ pc' = "while"
    /\ UNCHANGED <<db_up, stdout, checks, store, last, requests>>

\* self.stdout.write(self.style.SUCCESS('Database is ready!'))
Ready ==
    /\ pc = "ready"
    /\ stdout' = Append(stdout, READY)
    /\ pc' = "done"
    /\ UNCHANGED <<db_up, checks, clock, store, last, requests>>

WaitNext == Start \/ While \/ Check \/ Sleep \/ Ready

\* The process of the command runs on until handle() returns or raises.
WaitSpec == WaitInit /\ [][WaitNext]_vars /\ WF_vars(WaitNext)

----------------------------------------------------------------------------
(* Concurrent recipe creates: two POST /recipes/ and no other request.     *)

\* The two requests of the race.
Creators == {1, 2}

\* Two POST /recipes/ arrive before either is handled; the store is empty.
\* Each stays in `procs` once answered, for the two outcomes to be read
\* together.
RaceInit ==
    /\ procs \in [Creators ->
                    {[Request("recipe_create", u, 0, FALSE,
                              Payload("Curry", Absent, TRUE, l, Absent, FALSE), NoRow)
                         EXCEPT !.keep = TRUE] :
                       u \in Users, l \in TagLists \ {<<>>}}]
    /\ served = Cardinality(Creators)
    /\ EmptyStore
    /\ last = Response("none", FALSE, NoPayload, FALSE, 0, <<>>)
    /\ CommandDone

RaceNext ==
    \E p \in Creators :
        \/ ReqCreateRecipe(p)
        \/ ReqGet(p)
        \/ ReqInsert(p)
        \/ ReqGetAgain(p)
        \/ ReqAdd(p)

RaceSpec == RaceInit /\ [][RaceNext]_vars

----------------------------------------------------------------------------
(* Properties *)

\* The tags and the ingredients of a recipe, from the through tables.
TagsOf(through, recipe_id) == {p[2] : p \in {q \in through : q[1] = recipe_id}}

PayloadNames(payload) == IF payload.has_tags THEN Range(payload.tags) ELSE {}

Occurrences(seq, x) == Cardinality({i \in DOMAIN seq : seq[i] = x})

\* The step is a request that arrives.
Arrives == served' = served + 1

\* The step answers the p-th request in flight.
Answers(p) == p \in DOMAIN procs /\ Len(procs') < Len(procs)

\* C1: in every reachable state, every Tag and every Ingredient associated
\* with a Recipe is owned by the user that owns the Recipe.
C1_SameOwnerAssociations ==
    /\ \A p \in recipe_tags :
          /\ p[1] \in DOMAIN recipes
          /\ p[2] \in DOMAIN tags
          /\ tags[p[2]].user = recipes[p[1]].user
    /\ \A p \in recipe_ingredients :
          /\ p[1] \in DOMAIN recipes
          /\ p[2] \in DOMAIN ingredients
          /\ ingredients[p[2]].user = recipes[p[1]].user

\* A recipe has a tag, and another user has a tag of the same name.
C1_Witness ==
    \E p \in recipe_tags : \E t \in DOMAIN tags :
        /\ tags[t].name = tags[p[2]].name
        /\ tags[t].user # recipes[p[1]].user

\* C2: a list request on Recipe, Tag or Ingredient by user u returns exactly
\* the rows whose owner is u.
C2_ListLimitedToUser ==
    [][\A u \in Users :
          /\ (last'.op = "recipe_list" /\ RecipeList(u))
                => Range(last'.data) = {i \in DOMAIN recipes : recipes[i].user = u}
          /\ (last'.op = "tag_list" /\ TagList(u, last'.assigned_only))
                => Range(last'.data) = {i \in DOMAIN tags : tags[i].user = u}
          /\ (last'.op = "ingredient_list" /\ IngredientList(u, last'.assigned_only))
                => Range(last'.data)
                      = {i \in DOMAIN ingredients : ingredients[i].user = u}
      ]_vars

\* A tag listing returned rows while another user's tag is in the table.
C2_Witness ==
    /\ last.op = "tag_list"
    /\ last.data # <<>>
    /\ last.status = HTTP_200_OK
    /\ \E t \in DOMAIN tags : t \notin Range(last.data)

\* C3: when a create of user u comes to a name of its list and u has a Tag
\* of that name, the lookup takes that row (same id) and no row is made;
\* when u has none, also when another user has a Tag of that name, the
\* create goes on to insert a row, and the row it inserts is owned by u and
\* has that name; the tag a create attaches is the one it found or made, it
\* is owned by u, and so is every tag of the recipe when the create is
\* answered 201.
C3_CreateReusesOwnTag ==
    [][\A p \in DOMAIN procs :
          LET req == procs[p]
              own == {t \in DOMAIN tags :
                        tags[t].user = req.user /\ tags[t].name = Head(req.rest)}
          IN  /\ ReqGet(p) =>
                    /\ tags' = tags
                    /\ IF own # {}
                       THEN procs'[p].pc = "add" /\ procs'[p].tag_obj \in own
                       ELSE procs'[p].pc = "insert"
              /\ (ReqInsert(p) /\ tags' # tags) =>
                    \E t \in DOMAIN tags' \ DOMAIN tags :
                       /\ tags' = Insert(tags, t, [user |-> req.user,
                                                   name |-> Head(req.rest)])
                       /\ procs'[p].tag_obj = t
              /\ (ReqAdd(p) /\ last'.status # HTTP_500_SERVER_ERROR) =>
                    /\ recipe_tags' = recipe_tags \cup {<<req.id, req.tag_obj>>}
                    /\ tags[req.tag_obj].user = req.user
                    /\ Answers(p) =>
                          \A t \in TagsOf(recipe_tags', req.id) : tags'[t].user = req.user
      ]_vars

\* The recipe just created shares a tag with an older recipe: the row was
\* reused.
C3_Witness ==
    /\ last.op = "recipe_create"
    /\ last.status = HTTP_201_CREATED
    /\ \E t \in TagsOf(recipe_tags, last.data[1]) :
          \E r \in DOMAIN recipes : r # last.data[1] /\ t \in TagsOf(recipe_tags, r)

\* C4: a create handled alone whose tags list holds a name more than once
\* finds, at every occurrence after the first, the row of the owner with
\* that name and makes none; answered 201, it leaves exactly one Tag row of
\* that name for the owner, exactly one association of the recipe with a
\* tag of that name, which is that row, and one association for every
\* distinct name of the list.
C4_DuplicateNamesOneRow ==
    [][\A p \in DOMAIN procs :
          LET req == procs[p]
              names == req.payload.tags
              done == Len(names) - Len(req.rest)
          IN  /\ (ReqGet(p) /\ \E i \in 1..done : names[i] = Head(req.rest)) =>
                    /\ tags' = tags
                    /\ procs'[p].pc = "add"
                    /\ tags[procs'[p].tag_obj]
                          = [user |-> req.user, name |-> Head(req.rest)]
              /\ (ReqAdd(p) /\ Answers(p) /\ last'.status = HTTP_201_CREATED) =>
                    LET attached == TagsOf(recipe_tags', req.id)
                    IN  \A n \in PayloadNames(req.payload) :
                           Occurrences(names, n) > 1 =>
                              LET rows == {t \in DOMAIN tags' :
                                             tags'[t].user = req.user /\ tags'[t].name = n}
                              IN  /\ Cardinality(rows) = 1
                                  /\ {t \in attached : tags'[t].name = n} = rows
                                  /\ Cardinality({q \in recipe_tags' :
                                                    q[1] = req.id /\ q[2] \in rows}) = 1
                                  /\ Cardinality(attached)
                                        = Cardinality(PayloadNames(req.payload))
      ]_vars

\* A create whose list names a tag twice was answered 201.
C4_Witness ==
    /\ last.op = "recipe_create"
    /\ last.status = HTTP_201_CREATED
    /\ \E n \in PayloadNames(last.payload) : Occurrences(last.payload.tags, n) > 1

\* The request of the step: an update that is answered as it arrives, with
\* the body `last` keeps.
UpdateStep(u, id) ==
    /\ last'.op = "recipe_update"
    /\ procs' = procs
    /\ RecipeUpdate(u, id, last'.partial, last'.payload)

\* C5: an update by the owner that carries a tags list leaves the recipe
\* with exactly the found-or-created tags of the list, and deletes no Tag
\* row.
C5_UpdateReplacesTags ==
    [][\A u \in Users, id \in RecipeIds :
          (/\ UpdateStep(u, id)
           /\ last'.payload.has_tags
           /\ is_valid(last'.payload, last'.partial)
           /\ id \in DOMAIN recipes
           /\ recipes[id].user = u) =>
             /\ {tags'[t].name : t \in TagsOf(recipe_tags', id)}
                   = Range(last'.payload.tags)
             /\ \A t \in TagsOf(recipe_tags', id) : tags'[t].user = u
             /\ DOMAIN tags \subseteq DOMAIN tags'
      ]_vars

\* C6: a partial update handled alone whose payload has no tags: as it
\* arrives the store is left as it was, and the instance it goes on to save
\* has the scalar fields of the row the payload does not carry; its save
\* leaves the tags of the recipe as they were before the request (likewise
\* the ingredients), and every scalar field the payload does not carry,
\* and is answered 200.
C6_PartialUpdateFrame ==
    [][/\ Len(procs') > Len(procs) =>
             LET req == procs'[Len(procs')]
             IN  (req.op = "recipe_update" /\ req.partial /\ ~req.payload.has_tags) =>
                    /\ UNCHANGED store
                    /\ req.pc = "save"
                    /\ req.payload.title = Absent => req.row.title = recipes[req.id].title
                    /\ req.payload.link = Absent => req.row.link = recipes[req.id].link
       /\ \A p \in DOMAIN procs :
             (/\ ReqSaveRecipe(p)
              /\ procs[p].partial
              /\ ~procs[p].payload.has_tags) =>
                LET id == procs[p].id
                    payload == procs[p].payload
                IN  /\ id \in DOMAIN recipes /\ id \in DOMAIN recipes'
                    /\ last'.status = HTTP_200_OK
                    /\ recipe_tags' = recipe_tags
                    /\ recipe_ingredients' = recipe_ingredients
                    /\ tags' = tags /\ ingredients' = ingredients
                    /\ payload.title = Absent => recipes'[id].title = recipes[id].title
                    /\ payload.link = Absent => recipes'[id].link = recipes[id].link
                    /\ recipes'[id].user = recipes[id].user
                    /\ \A r \in DOMAIN recipes \ {id} :
                          r \in DOMAIN recipes' /\ recipes'[r] = recipes[r]
      ]_vars

\* A partial update that carries a title and no tags was answered 200 on a
\* recipe that has a tag, an ingredient and a link.
C6_Witness ==
    /\ last.op = "recipe_update"
    /\ last.status = HTTP_200_OK
    /\ last.partial
    /\ last.payload.title # Absent
    /\ ~last.payload.has_tags
    /\ TagsOf(recipe_tags, last.data[1]) # {}
    /\ TagsOf(recipe_ingredients, last.data[1]) # {}
    /\ recipes[last.data[1]].link = "pdf"

\* C7: no step changes the owner of a recipe; the row an update saves is
\* owned by the user the update came from, also when the body names
\* another; and an update whose body has a user value is handled as the
\* same update without it, and answered 200 when its save finds the row.
C7_OwnerImmutable ==
    [][/\ \A id \in DOMAIN recipes \cap DOMAIN recipes' :
             recipes'[id].user = recipes[id].user
       /\ \A p \in DOMAIN procs :
             /\ (ReqSaveRecipe(p) /\ procs[p].id \in DOMAIN recipes) =>
                   /\ recipes'[procs[p].id].user = procs[p].user
                   /\ last'.status = HTTP_200_OK
             /\ (ReqSaveRecipeInsert(p) /\ procs[p].id \notin DOMAIN recipes) =>
                   /\ recipes'[procs[p].id].user = procs[p].user
                   /\ last'.status = HTTP_200_OK
       /\ Len(procs') > Len(procs) =>
             LET req == procs'[Len(procs')]
             IN  (req.op = "recipe_update" /\ req.payload.user # Absent) =>
                    /\ req.pc = "save"
                    /\ req.row.user = recipes[req.id].user
                    /\ req.row = recipe_update(recipes, req.user, req.id, req.partial,
                                       [req.payload EXCEPT !.user = Absent]).row
       /\ \A u \in Users, id \in RecipeIds :
             (UpdateStep(u, id) /\ last'.payload.user # Absent) =>
                last'.status
                   = recipe_update(recipes, u, id, last'.partial,
                                   [last'.payload EXCEPT !.user = Absent]).status
      ]_vars

\* An update naming another user as the owner was answered 200.
C7_Witness ==
    /\ last.op = "recipe_update"
    /\ last.status = HTTP_200_OK
    /\ last.payload.user # Absent
    /\ recipes[last.data[1]].user # last.payload.user

\* C8: a retrieve, update or delete by user a of a recipe another user owns
\* is answered 404 as it arrives and leaves the store as it was; a request
\* that goes on to save or delete a recipe is by the owner of the recipe,
\* and its statement leaves the recipes of the other users, and their
\* associations, as they were.
C8_OtherUsersRecipeNotFound ==
    [][/\ Arrives =>
             /\ \A a \in Users, id \in DOMAIN recipes :
                   (/\ recipes[id].user # a
                    /\ \/ last'.op = "recipe_retrieve" /\ RecipeRetrieve(a, id)
                       \/ UpdateStep(a, id)
                       \/ last'.op = "recipe_destroy" /\ RecipeDestroy(a, id)) =>
                      /\ last'.status = HTTP_404_NOT_FOUND
                      /\ UNCHANGED <<store, procs>>
             /\ Len(procs') > Len(procs) =>
                   LET req == procs'[Len(procs')]
                   IN  req.op \in {"recipe_update", "recipe_destroy"} =>
                          /\ req.id \in DOMAIN recipes
                          /\ recipes[req.id].user = req.user
                          /\ UNCHANGED store
       /\ \A p \in DOMAIN procs :
             (\/ ReqSaveRecipe(p) \/ ReqSaveRecipeInsert(p)
              \/ ReqDeleteRecipe(p) \/ ReqDeleteRecipeIngredients(p)
              \/ ReqDeleteRecipeRow(p)) =>
                \A id \in DOMAIN recipes :
                   recipes[id].user # procs[p].user =>
                      /\ id \in DOMAIN recipes'
                      /\ recipes'[id] = recipes[id]
                      /\ TagsOf(recipe_tags', id) = TagsOf(recipe_tags, id)
                      /\ TagsOf(recipe_ingredients', id)
                            = TagsOf(recipe_ingredients, id)
      ]_vars

\* A delete was answered 404 while every id a request can name is the id of
\* a recipe: the recipe is another user's.
C8_Witness ==
    /\ last.op = "recipe_destroy"
    /\ last.status = HTTP_404_NOT_FOUND
    /\ DOMAIN recipes = RecipeIds

\* C9: a Tag listing with assigned_only=1 returns only rows that are
\* associated with at least one recipe when it is answered.
C9_AssignedOnly ==
    [][(last'.op = "tag_list" /\ last'.assigned_only /\ Arrives) =>
          \A t \in Range(last'.data) : \E p \in recipe_tags : p[2] = t]_vars

\* C10: a recipe create that fails persists no Recipe row and no
\* association; one that succeeds leaves the recipe with a tag for every
\* name of its list.
C10_CreateAtomic ==
    [][\A p \in DOMAIN procs :
          (/\ procs[p].op = "recipe_create"
           /\ Answers(p)
           /\ ReqGet(p) \/ ReqGetAgain(p) \/ ReqAdd(p) \/ ReqFault(p)) =>
             LET id == procs[p].id
             IN  IF last'.status = HTTP_201_CREATED
                 THEN /\ id \in DOMAIN recipes'
                      /\ {tags'[t].name : t \in TagsOf(recipe_tags', id)}
                            = PayloadNames(procs[p].payload)
                 ELSE /\ id \notin DOMAIN recipes'
                      /\ TagsOf(recipe_tags', id) = {}
      ]_vars

\* The routes whose handler can have made a response labelled `label`: a
\* handler labels its response with its route, unless permission_denied or
\* http_method_not_allowed answered in its place.
RoutesOf(label) ==
    IF label \in Routes THEN {label}
    ELSE IF label = "http_method_not_allowed" THEN UnofferedRoutes
    ELSE Routes

\* C13: a request without a valid credential to a recipe, tag or ingredient
\* route is answered 401 as it arrives, returns no rows and leaves the store as it
\* was.
C13_AuthenticationRequired ==
    [][Arrives =>
          \A op \in RoutesOf(last'.op) :
             \/ /\ last'.status = HTTP_401_UNAUTHORIZED
                /\ last'.data = <<>>
                /\ UNCHANGED <<store, procs>>
             \/ ~AnonymousRoute(op)
      ]_vars

\* A request was answered 401 while the store held a recipe and a tag.
C13_Witness ==
    /\ last.status = HTTP_401_UNAUTHORIZED
    /\ DOMAIN recipes # {}
    /\ DOMAIN tags # {}

\* C14, as claimed: for an authenticated user, a create on the Tag or the
\* Ingredient route with a name the user does not hold is answered 201, and
\* a retrieve of a row of the user is answered 200 with that row.
C14_AttrCreateRetrieveAvailable ==
    [][Arrives =>
          \A u \in Users :
             /\ \A name \in Names :
                   (~unique_violation(tags, 0, u, name) /\ TagCreate(u, name))
                      => last'.status = HTTP_201_CREATED
             /\ \A id \in DOMAIN tags :
                   (tags[id].user = u /\ TagRetrieve(u, id))
                      => last'.status = HTTP_200_OK /\ last'.data = <<id>>
             /\ \A name \in IngredientNames :
                   (~unique_violation(ingredients, 0, u, name)
                      /\ IngredientCreate(u, name))
                      => last'.status = HTTP_201_CREATED
             /\ \A id \in DOMAIN ingredients :
                   (ingredients[id].user = u /\ IngredientRetrieve(u, id))
                      => last'.status = HTTP_200_OK /\ last'.data = <<id>>
      ]_vars

\* C15: a Recipe listing returns the rows of the user by strictly descending
\* id; a Tag or Ingredient listing returns the rows of the user, each once,
\* by descending name.
C15_ListingOrder ==
    [][\A u \in Users :
          LET data == last'.data
              once == \A i, j \in DOMAIN data : data[i] = data[j] => i = j
              strictly_descending(rank) ==
                  \A i, j \in DOMAIN data : i < j => rank[data[i]] > rank[data[j]]
              descending(rank) ==
                  \A i, j \in DOMAIN data : i < j => rank[data[i]] >= rank[data[j]]
          IN  /\ (last'.op = "recipe_list" /\ RecipeList(u))
                    => /\ strictly_descending([r \in DOMAIN recipes |-> r])
                       /\ Range(data) = {r \in DOMAIN recipes : recipes[r].user = u}
              /\ (last'.op = "tag_list" /\ TagList(u, last'.assigned_only))
                    => /\ descending([t \in DOMAIN tags |-> NameRank[tags[t].name]])
                       /\ once
                       /\ Range(data) = {t \in DOMAIN tags : tags[t].user = u}
              /\ (last'.op = "ingredient_list"
                     /\ IngredientList(u, last'.assigned_only))
                    => /\ descending([t \in DOMAIN ingredients |->
                                        NameRank[ingredients[t].name]])
                       /\ once
                       /\ Range(data)
                             = {t \in DOMAIN ingredients : ingredients[t].user = u}
      ]_vars

\* A tag listing returned two rows, the older one first: the order is by
\* name, not by id.
C15_Witness ==
    /\ last.op = "tag_list"
    /\ Len(last.data) = 2
    /\ last.data[1] < last.data[2]

\* No two rows of the table have the same user and the same name.
UniqueUserName(table) ==
    \A i, j \in DOMAIN table :
        (table[i].user = table[j].user /\ table[i].name = table[j].name) => i = j

ConnectivityFailures == {Psycopg2Error, OperationalError}

\* C12: wait_for_db answers every connectivity failure of the check by
\* waiting one second and checking again, however many have failed before;
\* a connectivity failure does not end the command; and when the checks
\* still to come fail by connectivity only and then return, the command
\* ends having reported that the database is ready.
C12_WaitForDbRetries ==
    /\ [][(pc = "check" /\ checks # <<>> /\ Head(checks) \in ConnectivityFailures)
            => pc' = "sleep"]_vars
    /\ [][pc = "sleep" => (clock' = clock + 1 /\ pc' = "while" /\ db_up' = FALSE)]_vars
    /\ [](pc = "check" => clock = Occurrences(stdout, UNAVAILABLE))
    /\ (pc = "sleep") ~> (pc = "check")
    /\ (/\ pc \notin {"raised", "done"}
        /\ \A i \in DOMAIN checks : checks[i] \in ConnectivityFailures)
          ~> (pc = "done" /\ stdout[Len(stdout)] = READY)

\* The command ended after a check raised each of the two errors.
C12_Witness ==
    /\ pc = "done"
    /\ clock >= 2
    /\ stdout[Len(stdout)] = READY

\* C17: the ready message is written at most once, after a check that
\* returned, and nothing is written after it; a check that fails by
\* connectivity writes one unavailable message, and no other step writes
\* one; an exception of another type ends the command at once, without the
\* ready message.
C17_WaitForDbOutput ==
    /\ [](/\ Occurrences(stdout, READY) <= 1
          /\ READY \in Range(stdout) =>
                /\ stdout[Len(stdout)] = READY
                /\ db_up = TRUE
                /\ checks = <<>>
                /\ pc = "done"
          /\ pc = "raised" => READY \notin Range(stdout))
    /\ [][IF pc = "check" /\ checks # <<>> /\ Head(checks) \in ConnectivityFailures
          THEN stdout' = Append(stdout, UNAVAILABLE)
          ELSE Occurrences(stdout', UNAVAILABLE) = Occurrences(stdout, UNAVAILABLE)]_vars
    /\ [][(pc = "check" /\ checks # <<>> /\ Head(checks) \notin ConnectivityFailures)
            => (pc' = "raised" /\ stdout' = stdout)]_vars
    /\ [][pc \notin {"raised", "done"}]_vars

\* A connectivity failure was retried, then an exception of another type
\* ended the command.
C17_Witness ==
    /\ pc = "raised"
    /\ UNAVAILABLE \in Range(stdout)


\* C11: when two concurrent recipe creates have ended, every tag name that
\* both name under the same owner has exactly one Tag row of that owner,
\* and both recipes are associated with it; each request was answered 201
\* and its recipe has a tag for every name of its list, and no other.
C11_ConcurrentCreatesOneTag ==
    (\A p \in DOMAIN procs : procs[p].pc = "done") =>
        /\ \A p, q \in DOMAIN procs :
              (p # q /\ procs[p].user = procs[q].user) =>
                 \A n \in Range(procs[p].payload.tags) \cap Range(procs[q].payload.tags) :
                    LET rows == {t \in DOMAIN tags :
                                   tags[t].user = procs[p].user /\ tags[t].name = n}
                    IN  /\ Cardinality(rows) = 1
                        /\ rows \subseteq TagsOf(recipe_tags, procs[p].id)
                        /\ rows \subseteq TagsOf(recipe_tags, procs[q].id)
        /\ \A p \in DOMAIN procs :
              /\ procs[p].status = HTTP_201_CREATED
              /\ {tags[t].name : t \in TagsOf(recipe_tags, procs[p].id)}
                    = Range(procs[p].payload.tags)
              /\ \A t \in TagsOf(recipe_tags, procs[p].id) :
                    tags[t].user = procs[p].user

\* Both requests have ended, and one of them lost its insert to the other
\* and took the other's row.
C11_Witness ==
    /\ procs # <<>>
    /\ \A p \in DOMAIN procs : procs[p].pc = "done"
    /\ \E p \in DOMAIN procs : procs[p].lost

====
